---- MODULE Spec2Model ----
(***************************************************************************)
(* Inkguiding (src/Inkguiding.py): the guide overlay.                      *)
(*                                                                         *)
(* OverlayCanvas holds the guide list and the two interaction indices and  *)
(* handles the pointer events; MainWindow owns the settings/visibility     *)
(* mode, the ambient style defaults and the control panel wiring.          *)
(*                                                                         *)
(* Two specifications are given over the same variables:                   *)
(*   Spec        the program as MainWindow wires it (panel, toggles,       *)
(*               startup load, pointer events);                            *)
(*   SpecCanvas  OverlayCanvas alone, its public methods called in any     *)
(*               order with any argument, plus the pointer events.         *)
(* Python indices are kept 0-based; guides[i] of the program is            *)
(* guides[i + 1] of the sequence here.                                     *)
(***************************************************************************)
EXTENDS Integers, Sequences, FiniteSets, TLC

VARIABLES
    guides,              \* OverlayCanvas._guides
    hover_idx,           \* OverlayCanvas._hover_idx
    positioning_idx,     \* OverlayCanvas._positioning_idx
    interactive,         \* OverlayCanvas._interactive
    mouse_transparent,   \* the canvas's WA_TransparentForMouseEvents attribute
    emitted,             \* guideChanged emissions of the last operation
    raised,              \* the exception the last operation raised, if any
    settings_mode,       \* MainWindow._settings_mode
    guides_visible,      \* MainWindow._guides_visible
    window_visible,      \* MainWindow's visibility (setVisible / hide)
    ws_ex_transparent,   \* the WS_EX_TRANSPARENT bit of the window's ex-style
    defaults,            \* MainWindow._default_color/_thickness/_style
    panel,               \* ControlPanel: _current_color, thickness_spin, style_combo
    op                   \* the operation handled last, and the drag it met

canvasVars == <<guides, hover_idx, positioning_idx, interactive, mouse_transparent,
                emitted, raised>>
windowVars == <<settings_mode, guides_visible, window_visible, ws_ex_transparent, defaults, panel>>
vars == <<guides, hover_idx, positioning_idx, interactive, mouse_transparent, emitted,
          raised, settings_mode, guides_visible, window_visible, ws_ex_transparent, defaults,
          panel, op>>

----------------------------------------------------------------------------
(* Program constants *)

GUIDE_HIT_RADIUS == 15
GUIDE_DRAG_RADIUS == 20

\* No exception left the operation.
NoError == "none"

\* Optional[int] = None: no index. Every real index is >= 0.
None == -1

Orange == <<255, 140, 0, 255>>

\* The Guide dataclass with its field defaults.
Guide(orientation, pos) ==
    [orientation |-> orientation, pos |-> pos, color |-> Orange,
     thickness |-> 2, style_name |-> "Solid"]

StyledGuide(orientation, pos, color, thickness, style_name) ==
    [orientation |-> orientation, pos |-> pos, color |-> color,
     thickness |-> thickness, style_name |-> style_name]

----------------------------------------------------------------------------
(* Bounds of the model and the inputs drawn *)

MaxGuides == 2
SurfaceWidth == 30
SurfaceHeight == 30

XCoords == {-5, 15, 16, SurfaceWidth + 50}
YCoords == {-5, 15, 16, SurfaceHeight + 50}
Buttons == {"LeftButton", "RightButton", "MiddleButton"}

\* The handlers read the Shift modifier for the middle button only.
PressEventsOf(button) ==
    [button : {button}, x : XCoords, y : YCoords,
     shift : IF button = "MiddleButton" THEN BOOLEAN ELSE {FALSE}]
PressEvents == UNION {PressEventsOf(b) : b \in Buttons}
MoveEvents == [button : {"NoButton"}, x : XCoords, y : YCoords, shift : {FALSE}]
ReleaseEvents == [button : Buttons, x : {15}, y : {15}, shift : {FALSE}]

GuideInputs == {Guide(o, p) : o \in {"v", "h"}, p \in {15, 16}}
LoadedGuides == {Guide("v", 15), Guide("h", 16)}
SeqsUpTo(S, n) == UNION {[1..k -> S] : k \in 0..n}
GuideListInputs == SeqsUpTo(LoadedGuides, MaxGuides)
IndexInputs == (-2)..(MaxGuides + 1)

----------------------------------------------------------------------------
(* Helpers *)

Abs(n) == IF n < 0 THEN -n ELSE n
Max(a, b) == IF a >= b THEN a ELSE b
Min(a, b) == IF a <= b THEN a ELSE b

\* del that takes the 0-based index for a 1-based one.
DelAtNext(gs, index) ==
    [k \in 1..(Len(gs) - 1) |-> IF k <= index + 1 THEN gs[k] ELSE gs[k + 1]]

\* del self._guides[index]
DelAt(gs, index) ==
    [k \in 1..(Len(gs) - 1) |-> IF k <= index THEN gs[k] ELSE gs[k + 1]]

\* FixIndex without the renumbering of the indices behind the removed guide.
FixIndexNoShift(idx, index) ==
    IF idx # None
    THEN IF idx = index THEN None ELSE idx
    ELSE idx

\* FixIndex taking the removed slot itself for a slot behind it.
FixIndexShiftsRemoved(idx, index) ==
    IF idx # None
    THEN IF idx >= index THEN idx - 1 ELSE idx
    ELSE idx

\* "Fix indices after removal": one interaction index after guide `index` went.
FixIndex(idx, index) ==
    IF idx # None
    THEN IF idx = index THEN None
         ELSE IF idx > index THEN idx - 1
         ELSE idx
    ELSE idx

\* The clamp with the extent itself for its upper end.
ClampToExtent(extent, c) == Max(0, Min(extent, c))

\* int(max(0, min(extent - 1, coordinate)))
ClampTo(extent, c) == Max(0, Min(extent - 1, c))

\* The radius test with a strict bound.
GuideHitStrict(g, e, radius) ==
    \/ g.orientation = "v" /\ Abs(e.x - g.pos) < radius
    \/ g.orientation = "h" /\ Abs(e.y - g.pos) < radius

\* One guide against the pointer: the branch conditions of the scan loop.
GuideHit(g, e, radius) ==
    \/ g.orientation = "v" /\ Abs(e.x - g.pos) <= radius
    \/ g.orientation = "h" /\ Abs(e.y - g.pos) <= radius

RECURSIVE ScanFrom(_, _, _, _)
ScanFrom(gs, i, e, radius) ==
    IF i >= Len(gs) THEN None
    ELSE IF GuideHit(gs[i + 1], e, radius) THEN i
    ELSE ScanFrom(gs, i + 1, e, radius)

\* _findGuideAt with the two radii exchanged.
_findGuideAtRadiiSwapped(e, use_drag_radius) ==
    LET radius == IF use_drag_radius THEN GUIDE_HIT_RADIUS ELSE GUIDE_DRAG_RADIUS
    IN  ScanFrom(guides, 0, e, radius)

_findGuideAt(e, use_drag_radius) ==
    LET radius == IF use_drag_radius THEN GUIDE_DRAG_RADIUS ELSE GUIDE_HIT_RADIUS
    IN  ScanFrom(guides, 0, e, radius)

----------------------------------------------------------------------------
(* OverlayCanvas *)

CanvasInit ==
    /\ guides = <<>>
    /\ hover_idx = None
    /\ positioning_idx = None
    /\ interactive = FALSE
    /\ mouse_transparent = FALSE
    /\ emitted = 0
    /\ raised = NoError

\* setInteractive that only flips the flag and the attribute.
setInteractiveKeepsIndices(enabled) ==
    /\ interactive' = enabled
    /\ mouse_transparent' = ~enabled
    /\ emitted' = 0
    /\ raised' = NoError
    /\ UNCHANGED <<guides, positioning_idx, hover_idx>>

setInteractive(enabled) ==
    /\ interactive' = enabled
    /\ mouse_transparent' = ~enabled
    /\ IF ~enabled
       THEN positioning_idx' = None /\ hover_idx' = None
       ELSE UNCHANGED <<positioning_idx, hover_idx>>
    /\ emitted' = 0
    /\ raised' = NoError
    /\ UNCHANGED guides

\* addGuide that puts the new guide in front.
addGuidePrepends(guide) ==
    /\ Len(guides) < MaxGuides
    /\ guides' = <<guide>> \o guides
    /\ emitted' = 1
    /\ raised' = NoError
    /\ UNCHANGED <<hover_idx, positioning_idx, interactive, mouse_transparent>>

addGuide(guide) ==
    /\ Len(guides) < MaxGuides
    /\ guides' = Append(guides, guide)
    /\ emitted' = 1
    /\ raised' = NoError
    /\ UNCHANGED <<hover_idx, positioning_idx, interactive, mouse_transparent>>

\* removeGuideAt that checks only the upper end of the range.
RemoveFromNoLowerBound(pidx, hidx, index) ==
    IF index < Len(guides)
    THEN /\ guides' = DelAt(guides, index)
         /\ positioning_idx' = FixIndex(pidx, index)
         /\ hover_idx' = FixIndex(hidx, index)
         /\ emitted' = 1
         /\ raised' = NoError
    ELSE /\ guides' = guides
         /\ positioning_idx' = pidx
         /\ hover_idx' = hidx
         /\ emitted' = 0
         /\ raised' = NoError

\* removeGuideAt that renumbers the positioning index only.
RemoveFromHoverUnshifted(pidx, hidx, index) ==
    IF 0 <= index /\ index < Len(guides)
    THEN /\ guides' = DelAt(guides, index)
         /\ positioning_idx' = FixIndex(pidx, index)
         /\ hover_idx' = IF hidx = index THEN None ELSE hidx
         /\ emitted' = 1
         /\ raised' = NoError
    ELSE /\ guides' = guides
         /\ positioning_idx' = pidx
         /\ hover_idx' = hidx
         /\ emitted' = 0
         /\ raised' = NoError

\* removeGuideAt run from the interaction indices pidx, hidx.
RemoveFrom(pidx, hidx, index) ==
    IF 0 <= index /\ index < Len(guides)
    THEN /\ guides' = DelAt(guides, index)
         /\ positioning_idx' = FixIndex(pidx, index)
         /\ hover_idx' = FixIndex(hidx, index)
         /\ emitted' = 1
         /\ raised' = NoError
    ELSE /\ guides' = guides
         /\ positioning_idx' = pidx
         /\ hover_idx' = hidx
         /\ emitted' = 0
         /\ raised' = NoError

removeGuideAt(index) ==
    /\ RemoveFrom(positioning_idx, hover_idx, index)
    /\ UNCHANGED <<interactive, mouse_transparent>>

\* clearGuides that resets only the positioning index.
clearGuidesKeepsHover ==
    /\ IF guides # <<>>
       THEN /\ guides' = <<>>
            /\ positioning_idx' = None
            /\ UNCHANGED hover_idx
            /\ emitted' = 1
            /\ raised' = NoError
       ELSE /\ UNCHANGED <<guides, positioning_idx, hover_idx>>
            /\ emitted' = 0
            /\ raised' = NoError
    /\ UNCHANGED <<interactive, mouse_transparent>>

clearGuides ==
    /\ IF guides # <<>>
       THEN /\ guides' = <<>>
            /\ positioning_idx' = None
            /\ hover_idx' = None
            /\ emitted' = 1
            /\ raised' = NoError
       ELSE /\ UNCHANGED <<guides, positioning_idx, hover_idx>>
            /\ emitted' = 0
            /\ raised' = NoError
    /\ UNCHANGED <<interactive, mouse_transparent>>

setGuides(gs) ==
    /\ guides' = gs
    /\ positioning_idx' = None
    /\ hover_idx' = None
    /\ emitted' = 1
    /\ raised' = NoError
    /\ UNCHANGED <<interactive, mouse_transparent>>

\* The left click that starts a drag without marking the guide hovered.
LeftPressNoHover(e) ==
    LET idx == _findGuideAt(e, TRUE)
    IN  /\ IF positioning_idx = None /\ idx # None
           THEN positioning_idx' = idx /\ UNCHANGED hover_idx
           ELSE IF positioning_idx # None
           THEN positioning_idx' = None /\ hover_idx' = None
           ELSE UNCHANGED <<positioning_idx, hover_idx>>
        /\ emitted' = 0
        /\ raised' = NoError
        /\ UNCHANGED <<guides, interactive, mouse_transparent>>

\* The left click that ends a drag only when it lands on a guide.
LeftPressFinishesOnGuide(e) ==
    LET idx == _findGuideAt(e, TRUE)
    IN  /\ IF positioning_idx = None /\ idx # None
           THEN positioning_idx' = idx /\ hover_idx' = idx
           ELSE IF positioning_idx # None /\ idx # None
           THEN positioning_idx' = None /\ hover_idx' = None
           ELSE UNCHANGED <<positioning_idx, hover_idx>>
        /\ emitted' = 0
        /\ raised' = NoError
        /\ UNCHANGED <<guides, interactive, mouse_transparent>>

LeftPress(e) ==
    LET idx == _findGuideAt(e, TRUE)
    IN  /\ IF positioning_idx = None /\ idx # None
           THEN positioning_idx' = idx /\ hover_idx' = idx
           ELSE IF positioning_idx # None
           THEN positioning_idx' = None /\ hover_idx' = None
           ELSE UNCHANGED <<positioning_idx, hover_idx>>
        /\ emitted' = 0
        /\ raised' = NoError
        /\ UNCHANGED <<guides, interactive, mouse_transparent>>

\* The right click that looks for its guide within the hover radius.
RightPressHoverRadius(e) ==
    LET idx == _findGuideAt(e, FALSE)
    IN  /\ IF idx # None
           THEN RemoveFrom(IF positioning_idx = idx THEN None ELSE positioning_idx,
                           hover_idx, idx)
           ELSE /\ UNCHANGED <<guides, positioning_idx, hover_idx>>
                /\ emitted' = 0
                /\ raised' = NoError
        /\ UNCHANGED <<interactive, mouse_transparent>>

RightPress(e) ==
    LET idx == _findGuideAt(e, TRUE)
    IN  /\ IF idx # None
           THEN RemoveFrom(IF positioning_idx = idx THEN None ELSE positioning_idx,
                           hover_idx, idx)
           ELSE /\ UNCHANGED <<guides, positioning_idx, hover_idx>>
                /\ emitted' = 0
                /\ raised' = NoError
        /\ UNCHANGED <<interactive, mouse_transparent>>

MiddlePress(e) ==
    IF e.shift
    THEN addGuide(Guide("h", e.y))
    ELSE addGuide(Guide("v", e.x))

\* mousePressEvent without the check of the interactive flag.
mousePressEventUnguarded(e) ==
    CASE e.button = "LeftButton" -> LeftPress(e)
      [] e.button = "RightButton" -> RightPress(e)
      [] e.button = "MiddleButton" -> MiddlePress(e)

mousePressEvent(e) ==
    IF ~interactive
    THEN UNCHANGED <<guides, hover_idx, positioning_idx, interactive, mouse_transparent>>
         /\ emitted' = 0
         /\ raised' = NoError
    ELSE CASE e.button = "LeftButton" -> LeftPress(e)
           [] e.button = "RightButton" -> RightPress(e)
           [] e.button = "MiddleButton" -> MiddlePress(e)

\* The positioning branch whose stale-index reset forgets the hover index.
DragToKeepsHover(e) ==
    IF positioning_idx < Len(guides)
    THEN LET g == guides[positioning_idx + 1]
             newpos == IF g.orientation = "v"
                       THEN ClampTo(SurfaceWidth, e.x)
                       ELSE ClampTo(SurfaceHeight, e.y)
         IN  /\ guides' = [guides EXCEPT ![positioning_idx + 1].pos = newpos]
             /\ emitted' = 1
             /\ raised' = NoError
             /\ UNCHANGED <<positioning_idx, hover_idx>>
    ELSE /\ positioning_idx' = None
         /\ emitted' = 0
         /\ raised' = NoError
         /\ UNCHANGED <<guides, hover_idx>>

\* The positioning branch: the dragged guide follows the pointer, clamped.
DragTo(e) ==
    IF positioning_idx < Len(guides)
    THEN LET g == guides[positioning_idx + 1]
             newpos == IF g.orientation = "v"
                       THEN ClampTo(SurfaceWidth, e.x)
                       ELSE ClampTo(SurfaceHeight, e.y)
         IN  /\ guides' = [guides EXCEPT ![positioning_idx + 1].pos = newpos]
             /\ emitted' = 1
             /\ raised' = NoError
             /\ UNCHANGED <<positioning_idx, hover_idx>>
    ELSE /\ positioning_idx' = None
         /\ hover_idx' = None
         /\ emitted' = 0
         /\ raised' = NoError
         /\ UNCHANGED guides

\* The hover branch hit-testing with the drag radius.
HoverAtDragRadius(e) ==
    LET idx == _findGuideAt(e, TRUE)
    IN  /\ IF idx # hover_idx
           THEN hover_idx' = idx
           ELSE UNCHANGED hover_idx
        /\ emitted' = 0
        /\ raised' = NoError
        /\ UNCHANGED <<guides, positioning_idx>>

\* The hover branch.
HoverAt(e) ==
    LET idx == _findGuideAt(e, FALSE)
    IN  /\ IF idx # hover_idx
           THEN hover_idx' = idx
           ELSE UNCHANGED hover_idx
        /\ emitted' = 0
        /\ raised' = NoError
        /\ UNCHANGED <<guides, positioning_idx>>

mouseMoveEvent(e) ==
    IF ~interactive
    THEN UNCHANGED <<guides, hover_idx, positioning_idx, interactive, mouse_transparent>>
         /\ emitted' = 0
         /\ raised' = NoError
    ELSE /\ IF positioning_idx # None THEN DragTo(e) ELSE HoverAt(e)
         /\ UNCHANGED <<interactive, mouse_transparent>>

mouseReleaseEvent(e) ==
    /\ emitted' = 0
    /\ raised' = NoError
    /\ UNCHANGED <<guides, hover_idx, positioning_idx, interactive, mouse_transparent>>

\* leaveEvent that clears the hover index during a drag as well.
leaveEventDuringDrag ==
    /\ IF interactive /\ hover_idx # None
       THEN hover_idx' = None
       ELSE UNCHANGED hover_idx
    /\ emitted' = 0
    /\ raised' = NoError
    /\ UNCHANGED <<guides, positioning_idx, interactive, mouse_transparent>>

leaveEvent ==
    /\ IF interactive /\ positioning_idx = None /\ hover_idx # None
       THEN hover_idx' = None
       ELSE UNCHANGED hover_idx
    /\ emitted' = 0
    /\ raised' = NoError
    /\ UNCHANGED <<guides, positioning_idx, interactive, mouse_transparent>>

\* paintEvent, the highlight: which guide it picks, whether it is drawn, and
\* in which yellow.
highlight_idx ==
    IF interactive
    THEN IF positioning_idx # None
         THEN positioning_idx
         ELSE IF hover_idx # None THEN hover_idx ELSE None
    ELSE None

HighlightDrawn ==
    highlight_idx # None /\ 0 <= highlight_idx /\ highlight_idx < Len(guides)

BrightYellow == <<255, 255, 0, 200>>
SoftYellow == <<255, 255, 0, 120>>

\* The highlight colour chosen by the hover index.
highlight_colorByHover ==
    IF hover_idx = highlight_idx THEN BrightYellow ELSE SoftYellow

highlight_color ==
    IF positioning_idx = highlight_idx THEN BrightYellow ELSE SoftYellow

----------------------------------------------------------------------------
(* Pointer events as the toolkit delivers them: to a window on screen. The   *)
(* handlers themselves decide what a non-interactive canvas does with them. *)

\* The record of the operation being handled: its name, the button of a press,
\* the positioning index it found and, for the startup load, the data read.
Handled(name, button) ==
    [name |-> name, button |-> button, was |-> positioning_idx, arg |-> <<>>]

Press ==
    \E e \in PressEvents :
        window_visible /\ mousePressEvent(e) /\ op' = Handled("mousePressEvent", e.button) /\ UNCHANGED windowVars

Move ==
    \E e \in MoveEvents :
        window_visible /\ mouseMoveEvent(e) /\ op' = Handled("mouseMoveEvent", "NoButton") /\ UNCHANGED windowVars

Release ==
    \E e \in ReleaseEvents :
        window_visible /\ mouseReleaseEvent(e) /\ op' = Handled("mouseReleaseEvent", "NoButton") /\ UNCHANGED windowVars

Leave ==
    window_visible /\ leaveEvent /\ op' = Handled("leaveEvent", "NoButton") /\ UNCHANGED windowVars

----------------------------------------------------------------------------
(* SpecCanvas: OverlayCanvas under arbitrary calls *)

DefaultStyle == [color |-> Orange, thickness |-> 2, style_name |-> "Solid"]

InitCanvas ==
    /\ CanvasInit
    /\ settings_mode = FALSE
    /\ guides_visible = TRUE
    /\ window_visible = TRUE
    /\ ws_ex_transparent = FALSE
    /\ defaults = DefaultStyle
    /\ panel = DefaultStyle
    /\ op = [name |-> "init", button |-> "NoButton", was |-> None, arg |-> <<>>]

CallSetInteractive ==
    \E b \in BOOLEAN :
        setInteractive(b) /\ op' = Handled("setInteractive", "NoButton") /\ UNCHANGED windowVars

CallAddGuide ==
    \E g \in GuideInputs :
        addGuide(g) /\ op' = Handled("addGuide", "NoButton") /\ UNCHANGED windowVars

CallRemoveGuideAt ==
    \E i \in IndexInputs :
        removeGuideAt(i) /\ op' = Handled("removeGuideAt", "NoButton") /\ UNCHANGED windowVars

CallClearGuides ==
    clearGuides /\ op' = Handled("clearGuides", "NoButton") /\ UNCHANGED windowVars

CallSetGuides ==
    \E gs \in GuideListInputs :
        setGuides(gs) /\ op' = Handled("setGuides", "NoButton") /\ UNCHANGED windowVars

NextCanvas ==
    \/ CallSetInteractive
    \/ CallAddGuide
    \/ CallRemoveGuideAt
    \/ CallClearGuides
    \/ CallSetGuides
    \/ Press
    \/ Move
    \/ Release
    \/ Leave

SpecCanvas == InitCanvas /\ [][NextCanvas]_vars

----------------------------------------------------------------------------
(* The canvas with a caller that keeps the list guides() returned. The list  *)
(* is the canvas's own, so a deletion through it goes past removeGuideAt: no *)
(* index is fixed up and nothing is emitted.                                 *)

guidesDelete(index) ==
    /\ 0 <= index /\ index < Len(guides)
    /\ guides' = DelAt(guides, index)
    /\ emitted' = 0
    /\ raised' = NoError
    /\ UNCHANGED <<hover_idx, positioning_idx, interactive, mouse_transparent>>

CallGuidesDelete ==
    \E i \in IndexInputs :
        guidesDelete(i) /\ op' = Handled("guides", "NoButton") /\ UNCHANGED windowVars

NextShared ==
    \/ CallSetInteractive
    \/ CallAddGuide
    \/ CallRemoveGuideAt
    \/ CallClearGuides
    \/ CallSetGuides
    \/ CallGuidesDelete
    \/ Press
    \/ Move
    \/ Release
    \/ Leave

SpecShared == InitCanvas /\ [][NextShared]_vars

----------------------------------------------------------------------------
(* ControlPanel and MainWindow *)

\* What the user picks in the panel, and where the cursor is on "Add @ Cursor".
ColorValues == {Orange}
ThicknessValues == {2, 5}
StyleValues == {"Solid", "Dashed"}
CursorOffsets == {-5, 15}

\* The pointer events drawn under Spec.
WindowXCoords == {-5, 15}
WindowYCoords == {-5, 15}
WindowPressEvents ==
    {e \in PressEvents : e.x \in WindowXCoords /\ e.y \in WindowYCoords}
WindowMoveEvents ==
    [button : {"NoButton"}, x : WindowXCoords, y : WindowYCoords, shift : {FALSE}]

STYLE_NAMES == {"Solid", "Dashed", "Dotted", "Dash-Dot", "Dash-Dot-Dot"}

GuideFields == {"orientation", "pos", "color", "thickness", "style_name"}

\* Guide(**item): the call raises when the entry names no orientation or no
\* pos, or names a key that is no field of Guide.
Constructs(item) ==
    /\ DOMAIN item \subseteq GuideFields
    /\ {"orientation", "pos"} \subseteq DOMAIN item

FieldOr(item, key, dflt) == IF key \in DOMAIN item THEN item[key] ELSE dflt

GuideFrom(item) ==
    StyledGuide(item["orientation"], item["pos"],
                FieldOr(item, "color", Orange),
                FieldOr(item, "thickness", 2),
                FieldOr(item, "style_name", "Solid"))

\* The loop of _load_settings: entries whose construction raises are skipped.
RECURSIVE LoadGuides(_)
LoadGuides(items) ==
    IF items = <<>> THEN <<>>
    ELSE LET rest == LoadGuides(Tail(items))
         IN  IF Constructs(Head(items))
             THEN <<GuideFrom(Head(items))>> \o rest
             ELSE rest

\* ControlPanel.setDefaults followed by getDefaults: the spin box keeps 1..20.
PanelAfterSetDefaults(d) ==
    [color |-> d.color,
     thickness |-> Max(1, Min(20, d.thickness)),
     style_name |-> d.style_name]

PersistedItems ==
    { [orientation |-> "v", pos |-> 15],
      [orientation |-> "h", pos |-> 15, thickness |-> 5, style_name |-> "Dashed"],
      [orientation |-> "v"],
      [orientation |-> "h", pos |-> 15, width |-> 3],
      [orientation |-> "v", pos |-> 15, thickness |-> 99] }

MaxPersisted == 2

PersistedSettings ==
    { DefaultStyle, [color |-> Orange, thickness |-> 5, style_name |-> "Dashed"] }

SettingsData ==
    [guides : SeqsUpTo(PersistedItems, MaxPersisted),
     settings : PersistedSettings,
     show_guides : BOOLEAN]

\* MainWindow.__init__ followed by main(): the state when the event loop starts.
Init ==
    \E data \in SettingsData :
        /\ guides = LoadGuides(data.guides)
        /\ hover_idx = None
        /\ positioning_idx = None
        /\ interactive = FALSE
        /\ mouse_transparent = TRUE
        /\ emitted = 1
        /\ raised = NoError
        /\ settings_mode = FALSE
        /\ guides_visible = data.show_guides
        /\ window_visible = data.show_guides
        /\ ws_ex_transparent = TRUE
        /\ panel = PanelAfterSetDefaults(data.settings)
        /\ defaults = PanelAfterSetDefaults(data.settings)
        /\ op = [name |-> "init", button |-> "NoButton", was |-> None, arg |-> data]

\* _apply_modes that keeps the canvas interactive only while the window shows.
_apply_modesPassiveWhenHidden(mode, visible) ==
    /\ setInteractive(mode /\ visible)
    /\ window_visible' = visible

\* _apply_modes: the canvas follows the settings mode, the window the visibility.
_apply_modes(mode, visible) ==
    /\ setInteractive(mode)
    /\ window_visible' = visible

\* _apply_clickthrough with the two branches exchanged.
_apply_clickthroughInverted(mode) ==
    ws_ex_transparent' = mode

\* _apply_clickthrough: the WS_EX_TRANSPARENT bit after the call.
_apply_clickthrough(mode) ==
    ws_ex_transparent' = ~mode

toggleSettingsMode ==
    /\ settings_mode' = ~settings_mode
    /\ _apply_modes(~settings_mode, guides_visible)
    /\ _apply_clickthrough(~settings_mode)
    /\ op' = Handled("toggleSettingsMode", "NoButton")
    /\ UNCHANGED <<guides_visible, defaults, panel>>

toggleGuidesVisibility ==
    /\ guides_visible' = ~guides_visible
    /\ _apply_modes(settings_mode, ~guides_visible)
    /\ op' = Handled("toggleGuidesVisibility", "NoButton")
    /\ UNCHANGED <<settings_mode, ws_ex_transparent, defaults, panel>>

\* ControlPanel._emit_add wired to OverlayCanvas.addGuide. The panel is on
\* screen in settings mode only.
_emit_add(orientation, offset) ==
    /\ settings_mode
    /\ addGuide(StyledGuide(orientation, Max(0, offset), panel.color,
                            panel.thickness, panel.style_name))
    /\ op' = Handled("_emit_add", "NoButton")
    /\ UNCHANGED windowVars

PanelAdd ==
    \E o \in {"v", "h"}, c \in CursorOffsets : _emit_add(o, c)

PanelClear ==
    /\ settings_mode
    /\ clearGuides
    /\ op' = Handled("clearGuides", "NoButton")
    /\ UNCHANGED windowVars

_set_default_color(color) ==
    /\ settings_mode
    /\ panel' = [panel EXCEPT !.color = color]
    /\ defaults' = [defaults EXCEPT !.color = color]
    /\ op' = Handled("_set_default_color", "NoButton")
    /\ emitted' = 0
    /\ raised' = NoError
    /\ UNCHANGED <<guides, hover_idx, positioning_idx, interactive, mouse_transparent,
                   settings_mode, guides_visible, window_visible, ws_ex_transparent>>

_set_default_thickness(t) ==
    /\ settings_mode
    /\ t # panel.thickness
    /\ panel' = [panel EXCEPT !.thickness = t]
    /\ defaults' = [defaults EXCEPT !.thickness = t]
    /\ op' = Handled("_set_default_thickness", "NoButton")
    /\ emitted' = 0
    /\ raised' = NoError
    /\ UNCHANGED <<guides, hover_idx, positioning_idx, interactive, mouse_transparent,
                   settings_mode, guides_visible, window_visible, ws_ex_transparent>>

_set_default_style(name) ==
    /\ settings_mode
    /\ name # panel.style_name
    /\ panel' = [panel EXCEPT !.style_name = name]
    /\ defaults' = [defaults EXCEPT !.style_name = name]
    /\ op' = Handled("_set_default_style", "NoButton")
    /\ emitted' = 0
    /\ raised' = NoError
    /\ UNCHANGED <<guides, hover_idx, positioning_idx, interactive, mouse_transparent,
                   settings_mode, guides_visible, window_visible, ws_ex_transparent>>

PanelColor == \E c \in ColorValues : _set_default_color(c)
PanelThickness == \E t \in ThicknessValues : _set_default_thickness(t)
PanelStyle == \E n \in StyleValues : _set_default_style(n)

WindowPress ==
    \E e \in WindowPressEvents :
        window_visible /\ mousePressEvent(e) /\ op' = Handled("mousePressEvent", e.button) /\ UNCHANGED windowVars

WindowMove ==
    \E e \in WindowMoveEvents :
        window_visible /\ mouseMoveEvent(e) /\ op' = Handled("mouseMoveEvent", "NoButton") /\ UNCHANGED windowVars

Next ==
    \/ toggleSettingsMode
    \/ toggleGuidesVisibility
    \/ PanelAdd
    \/ PanelClear
    \/ PanelColor
    \/ PanelThickness
    \/ PanelStyle
    \/ WindowPress
    \/ WindowMove
    \/ Release
    \/ Leave

Spec == Init /\ [][Next]_vars

----------------------------------------------------------------------------
(* Properties *)

\* An interaction index is None or the index of a guide of `gs`.
IndexIn(idx, gs) == idx = None \/ (0 <= idx /\ idx < Len(gs))

\* C1: no dangling index. In every state reached by any sequence of addGuide,
\* removeGuideAt, clearGuides, setGuides, setInteractive and pointer events,
\* hover_idx and positioning_idx are each None or an index of the guide list.
C1_NoDanglingIndex ==
    /\ IndexIn(hover_idx, guides)
    /\ IndexIn(positioning_idx, guides)

\* A removal behind which the drag went on, the dragged guide now the last one.
C1_Witness ==
    /\ op.name = "removeGuideAt"
    /\ emitted = 1
    /\ guides # <<>>
    /\ positioning_idx = Len(guides) - 1
    /\ hover_idx = Len(guides) - 1

\* C2: whenever the canvas is not interactive both interaction indices are
\* None; so setInteractive(False) leaves both None whatever the state before.
C2_PassiveHasNoIndex ==
    ~interactive => (hover_idx = None /\ positioning_idx = None)

\* setInteractive(False) called in the middle of a drag.
C2_Witness ==
    /\ op.name = "setInteractive"
    /\ op.was # None
    /\ ~interactive
    /\ positioning_idx = None
    /\ hover_idx = None

\* What removeGuideAt(i) owes one interaction index: `old` before, `new` after.
RederivedIndex(old, new, i) ==
    /\ old = None => new = None
    /\ old = i => new = None
    /\ (old # None /\ old > i) => (new = old - 1 /\ guides'[new + 1] = guides[old + 1])
    /\ (old # None /\ old < i) => (new = old /\ guides'[new + 1] = guides[old + 1])
    /\ new # None => (0 <= new /\ new < Len(guides'))

\* C3: for every valid index i, removeGuideAt(i) re-derives positioning_idx and
\* hover_idx each on its own: an index equal to i becomes None, an index above
\* i goes down by one and denotes the same guide as before, an index below i
\* stays; afterwards neither is >= the new length nor denotes the removed guide.
C3_RemoveRederivesIndices ==
    [][\A i \in IndexInputs :
          (0 <= i /\ i < Len(guides) /\ removeGuideAt(i))
          => /\ RederivedIndex(positioning_idx, positioning_idx', i)
             /\ RederivedIndex(hover_idx, hover_idx', i)
             /\ Len(guides') = Len(guides) - 1]_vars

\* A removal in front of the dragged guide: the drag goes on at the index below.
C3_Witness ==
    /\ op.name = "removeGuideAt"
    /\ emitted = 1
    /\ op.was # None
    /\ positioning_idx = op.was - 1
    /\ hover_idx = positioning_idx

\* The hit-test as the design states it: the guides within `radius` of the
\* pointer on their own axis, and the lowest index among them.
HitSet(gs, e, radius) ==
    {i \in 0..(Len(gs) - 1) :
        LET g == gs[i + 1]
            d == IF g.orientation = "v" THEN e.x - g.pos ELSE e.y - g.pos
        IN  -radius <= d /\ d <= radius}

LowestHit(gs, e, radius) ==
    LET hits == HitSet(gs, e, radius)
    IN  IF hits = {} THEN None
        ELSE CHOOSE i \in hits : \A j \in hits : i <= j

IsPress(o, button) == o.name = "mousePressEvent" /\ o.button = button

\* C4: click-to-start. Interactive and not positioning, a left button-down whose
\* hit-test with the drag radius (20 px) finds guide h sets positioning_idx = h
\* and hover_idx = h and moves no guide; when it finds none, hover_idx,
\* positioning_idx and the guides are all unchanged.
C4_ClickToStart ==
    [][(IsPress(op', "LeftButton") /\ interactive /\ positioning_idx = None) =>
        \A e \in PressEventsOf("LeftButton") :
            mousePressEvent(e)
            => LET h == LowestHit(guides, e, 20)
               IN  IF h # None
                   THEN positioning_idx' = h /\ hover_idx' = h /\ guides' = guides
                   ELSE UNCHANGED <<hover_idx, positioning_idx, guides>>]_vars

\* A left click out of Idle that started the drag of the second guide.
C4_Witness ==
    /\ IsPress(op, "LeftButton")
    /\ op.was = None
    /\ positioning_idx = 1
    /\ hover_idx = 1

\* C5: click-to-finish. Interactive and positioning guide i, the next left
\* button-down, wherever it lands, sets positioning_idx = None and
\* hover_idx = None and leaves every guide where the last move put it; a
\* button-up never ends a drag and changes nothing.
C5_ClickToFinish ==
    [][/\ (IsPress(op', "LeftButton") /\ interactive /\ positioning_idx # None) =>
            \A e \in PressEventsOf("LeftButton") :
                mousePressEvent(e)
                => /\ positioning_idx' = None
                   /\ hover_idx' = None
                   /\ guides' = guides
       /\ op'.name = "mouseReleaseEvent" =>
            \A e \in ReleaseEvents :
                mouseReleaseEvent(e)
                => UNCHANGED <<guides, hover_idx, positioning_idx, interactive,
                               mouse_transparent>>]_vars

\* A left click that ended a drag, a guide standing where the drag clamped it.
C5_Witness ==
    /\ IsPress(op, "LeftButton")
    /\ op.was # None
    /\ positioning_idx = None
    /\ hover_idx = None
    /\ guides[op.was + 1].pos = SurfaceWidth - 1

\* `new` is `old` with exactly the guide at index i taken out.
RemovedExactly(old, new, i) ==
    /\ Len(new) = Len(old) - 1
    /\ \A k \in 1..Len(new) : new[k] = IF k <= i THEN old[k] ELSE old[k + 1]

\* C6: deleting the dragged guide. Positioning guide i, a right button-down
\* whose drag-radius hit-test returns i leaves positioning_idx = None and
\* hover_idx = None, and the guides are the previous ones with exactly guide i
\* removed, the others in their order.
C6_DeleteDraggedGuide ==
    [][(IsPress(op', "RightButton") /\ interactive /\ positioning_idx # None) =>
        \A e \in PressEventsOf("RightButton") :
            (mousePressEvent(e) /\ LowestHit(guides, e, 20) = positioning_idx)
            => /\ positioning_idx' = None
               /\ hover_idx' = None
               /\ RemovedExactly(guides, guides', positioning_idx)]_vars

\* A right click during a drag that ended it and left another guide behind.
C6_Witness ==
    /\ IsPress(op, "RightButton")
    /\ op.was # None
    /\ emitted = 1
    /\ positioning_idx = None
    /\ hover_idx = None
    /\ guides # <<>>

\* The clamp as the design states it: into 0 .. extent - 1.
Clamped(extent, c) ==
    IF c < 0 THEN 0 ELSE IF c > extent - 1 THEN extent - 1 ELSE c

\* C7: drag move. Positioning a valid guide i, a pointer move to (x, y) sets
\* the position of guide i to x clamped into 0 .. SurfaceWidth - 1 when it is
\* vertical, to y clamped into 0 .. SurfaceHeight - 1 when horizontal, and
\* changes nothing else: no other guide, no other field, the length and order,
\* hover_idx and positioning_idx.
C7_DragMoveClamps ==
    [][(/\ op'.name = "mouseMoveEvent"
        /\ interactive
        /\ positioning_idx # None
        /\ positioning_idx < Len(guides)) =>
        \A e \in MoveEvents :
            mouseMoveEvent(e)
            => LET g == guides[positioning_idx + 1]
                   want == IF g.orientation = "v"
                           THEN Clamped(SurfaceWidth, e.x)
                           ELSE Clamped(SurfaceHeight, e.y)
               IN  /\ guides' = [guides EXCEPT ![positioning_idx + 1] =
                                    [g EXCEPT !.pos = want]]
                   /\ UNCHANGED <<hover_idx, positioning_idx, interactive,
                                  mouse_transparent>>]_vars

\* A move during the drag of a vertical guide that took it to the right edge.
C7_Witness ==
    /\ op.name = "mouseMoveEvent"
    /\ op.was # None
    /\ positioning_idx = op.was
    /\ guides[positioning_idx + 1].orientation = "v"
    /\ guides[positioning_idx + 1].pos = SurfaceWidth - 1

\* C8: hit-testing. For a pointer and a radius (hover 15, drag 20) the hit-test
\* returns the lowest index whose guide lies within the radius on its axis,
\* bound included (r pixels away hits, r + 1 does not), and None when no guide
\* qualifies.
C8_HitTestLowestWithinRadius ==
    \A e \in MoveEvents :
        /\ _findGuideAt(e, FALSE) = LowestHit(guides, e, 15)
        /\ _findGuideAt(e, TRUE) = LowestHit(guides, e, 20)

\* The pointer hovers the second guide exactly 15 px away; the first, 20 px
\* away, is out of the hover radius.
C8_Witness ==
    /\ op.name = "mouseMoveEvent"
    /\ Len(guides) = 2
    /\ guides[1].orientation = "v" /\ guides[1].pos = -5
    /\ guides[2].orientation = "v" /\ guides[2].pos = 0
    /\ hover_idx = 1
    /\ positioning_idx = None

\* C9: a guide added by a middle button-down takes its colour, thickness and
\* line style from the ambient defaults in force at the click.
C9_MiddleAddUsesAmbientDefaults ==
    (IsPress(op, "MiddleButton") /\ interactive /\ guides # <<>>)
    => LET g == guides[Len(guides)]
       IN  /\ g.color = defaults.color
           /\ g.thickness = defaults.thickness
           /\ g.style_name = defaults.style_name

\* The step appended exactly one guide and touched nothing else.
AppendedOne ==
    /\ Len(guides') = Len(guides) + 1
    /\ \A k \in 1..Len(guides) : guides'[k] = guides[k]
    /\ UNCHANGED <<hover_idx, positioning_idx>>

\* C10: adding a guide (addGuide, or a middle button-down in interactive mode,
\* positioning or not) appends exactly one guide at the end: the guides already
\* there keep index and values, hover_idx and positioning_idx are unchanged,
\* and a middle click at (x, y) adds a vertical guide at x without Shift and a
\* horizontal guide at y with Shift.
C10_AddAppendsOne ==
    [][/\ op'.name = "addGuide" =>
            \A g \in GuideInputs :
                addGuide(g) => (AppendedOne /\ guides'[Len(guides')] = g)
       /\ (IsPress(op', "MiddleButton") /\ interactive) =>
            \A e \in PressEventsOf("MiddleButton") :
                mousePressEvent(e)
                => /\ AppendedOne
                   /\ guides'[Len(guides')].orientation = IF e.shift THEN "h" ELSE "v"
                   /\ guides'[Len(guides')].pos = IF e.shift THEN e.y ELSE e.x]_vars

\* A Shift + middle click during a drag: a horizontal guide behind the others,
\* the drag still on.
C10_Witness ==
    /\ IsPress(op, "MiddleButton")
    /\ op.was # None
    /\ positioning_idx = op.was
    /\ emitted = 1
    /\ Len(guides) = 2
    /\ guides[Len(guides)].orientation = "h"
    /\ guides[1].orientation = "v"

\* index is no index of gs: outside 0..len(gs)-1.
OutOfRange(index, gs) == index < 0 \/ index >= Len(gs)

\* C11 (as stated): removeGuideAt with an index outside 0..len-1 fails with an
\* index error the caller can observe, and leaves guides, hover_idx and
\* positioning_idx unchanged with no guideChanged emission.
C11_RemoveOutOfRangeFails ==
    [][op'.name = "removeGuideAt" =>
            \A i \in IndexInputs :
                (OutOfRange(i, guides) /\ removeGuideAt(i))
                => /\ raised' = "IndexError"
                   /\ emitted' = 0
                   /\ UNCHANGED <<guides, hover_idx, positioning_idx>>]_vars

\* C11 (amended): removeGuideAt with an index outside 0..len-1 is ignored
\* silently: no exception leaves the call, and guides, hover_idx and
\* positioning_idx are unchanged with no guideChanged emission.
C11_RemoveOutOfRangeIgnored ==
    [][op'.name = "removeGuideAt" =>
            \A i \in IndexInputs :
                (OutOfRange(i, guides) /\ removeGuideAt(i))
                => /\ raised' = NoError
                   /\ emitted' = 0
                   /\ UNCHANGED <<guides, hover_idx, positioning_idx>>]_vars

\* An out-of-range removeGuideAt during a drag: nothing emitted, nothing
\* raised, both guides and the drag still there.
C11_Witness ==
    /\ op.name = "removeGuideAt"
    /\ op.was # None
    /\ positioning_idx = op.was
    /\ hover_idx = op.was
    /\ Len(guides) = 2
    /\ emitted = 0
    /\ raised = NoError

\* C12: clearGuides on a non-empty list empties it, sets hover_idx and
\* positioning_idx to None and emits guideChanged once; on an empty list it
\* changes nothing and emits nothing; either way both indices are None when
\* it returns.
C12_ClearResets ==
    [][(op'.name = "clearGuides" /\ clearGuides) =>
            /\ IF guides # <<>>
               THEN guides' = <<>> /\ emitted' = 1
               ELSE UNCHANGED <<guides, hover_idx, positioning_idx>> /\ emitted' = 0
            /\ hover_idx' = None
            /\ positioning_idx' = None]_vars

\* clearGuides called during a drag: the list is empty, the drag is over and
\* one emission went out.
C12_Witness ==
    /\ op.name = "clearGuides"
    /\ op.was # None
    /\ guides = <<>>
    /\ hover_idx = None
    /\ positioning_idx = None
    /\ emitted = 1

\* A persisted entry that parses as a Guide of the data model: orientation and
\* pos are there, no foreign key is, and every value lies in its field's domain.
ParsesAsGuide(item) ==
    /\ {"orientation", "pos"} \subseteq DOMAIN item
    /\ DOMAIN item \subseteq {"orientation", "pos", "color", "thickness", "style_name"}
    /\ item["orientation"] \in {"v", "h"}
    /\ item["pos"] \in Int
    /\ "color" \in DOMAIN item =>
            (Len(item["color"]) = 4 /\ \A k \in 1..4 : item["color"][k] \in 0..255)
    /\ "thickness" \in DOMAIN item => item["thickness"] \in 1..20
    /\ "style_name" \in DOMAIN item => item["style_name"] \in STYLE_NAMES

\* The guides of the entries of items that parse, in the order of items.
WellFormedGuides(items) ==
    LET kept == SelectSeq(items, ParsesAsGuide)
    IN  [k \in 1..Len(kept) |-> GuideFrom(kept[k])]

\* C13: the startup load of a persisted list that mixes well-formed and
\* malformed entries raises nothing and leaves exactly the well-formed entries
\* in guides, in their persisted order, with hover_idx and positioning_idx None.
C13_LoadSkipsMalformed ==
    op.name = "init" =>
        /\ raised = NoError
        /\ guides = WellFormedGuides(op.arg.guides)
        /\ hover_idx = None
        /\ positioning_idx = None

PointerHandlers ==
    {"mousePressEvent", "mouseMoveEvent", "mouseReleaseEvent", "leaveEvent"}

\* C14: while the canvas is not interactive every pointer event (a press of
\* any button, a move, a release, a leave) is ignored: guides with their
\* positions, hover_idx and positioning_idx are unchanged, and so is the mode.
C14_PassiveIgnoresPointer ==
    [][(op'.name \in PointerHandlers /\ ~interactive) =>
            UNCHANGED <<guides, hover_idx, positioning_idx, interactive>>]_vars

\* A middle press on the passive canvas that holds one guide: no guide was
\* added and nothing was emitted.
C14_Witness ==
    /\ IsPress(op, "MiddleButton")
    /\ ~interactive
    /\ Len(guides) = 1
    /\ hover_idx = None
    /\ positioning_idx = None
    /\ emitted = 0

\* C15: from startup on and after every toggleSettingsMode and
\* toggleGuidesVisibility, the canvas is interactive exactly when the window
\* is in settings mode, it is transparent for mouse events exactly when it is
\* not interactive, and the window's WS_EX_TRANSPARENT bit is set exactly when
\* settings mode is off; so no pointer event meets a state where they disagree.
C15_ModeSwitchConsistent ==
    /\ interactive = settings_mode
    /\ mouse_transparent = ~interactive
    /\ ws_ex_transparent = ~settings_mode

\* Settings mode on, the guides hidden and shown again: the canvas is still
\* interactive and the window still takes the clicks.
C15_Witness ==
    /\ op.name = "toggleGuidesVisibility"
    /\ settings_mode
    /\ window_visible
    /\ interactive
    /\ ~mouse_transparent
    /\ ~ws_ex_transparent

\* Index `new` of guides' denotes the guide that index `old` of guides denoted,
\* guide h having been taken out in between.
SameGuideAfterRemoval(old, new, h) ==
    /\ new = IF old > h THEN old - 1 ELSE old
    /\ 0 <= new /\ new < Len(guides')
    /\ guides'[new + 1] = guides[old + 1]

\* C16: a right button-down in interactive mode, positioning or not. When the
\* drag-radius hit-test returns h, exactly guide h is removed and the others
\* keep their order; if a guide d # h was being dragged, the drag goes on and
\* positioning_idx, and hover_idx with it, still denote guide d. When the
\* hit-test returns None, guides and both indices are unchanged.
C16_RightClickRemoves ==
    [][(IsPress(op', "RightButton") /\ interactive) =>
        \A e \in PressEventsOf("RightButton") :
            mousePressEvent(e)
            => LET h == LowestHit(guides, e, 20)
               IN  IF h = None
                   THEN UNCHANGED <<guides, hover_idx, positioning_idx>>
                   ELSE /\ RemovedExactly(guides, guides', h)
                        /\ (positioning_idx # None /\ positioning_idx # h) =>
                              /\ positioning_idx' # None
                              /\ SameGuideAfterRemoval(positioning_idx, positioning_idx', h)
                              /\ hover_idx = positioning_idx => hover_idx' = positioning_idx']_vars

\* A right click during the drag of the second guide that removed the first:
\* the drag goes on, one index down.
C16_Witness ==
    /\ IsPress(op, "RightButton")
    /\ op.was = 1
    /\ positioning_idx = 0
    /\ hover_idx = 0
    /\ Len(guides) = 1
    /\ emitted = 1

\* C17: a pointer move in interactive mode with no guide being positioned
\* leaves hover_idx equal to the result of the hover-radius (15 px) hit-test at
\* the pointer, leaves positioning_idx None and modifies no guide.
C17_IdleMoveSetsHover ==
    [][(op'.name = "mouseMoveEvent" /\ interactive /\ positioning_idx = None) =>
        \A e \in MoveEvents :
            mouseMoveEvent(e)
            => /\ hover_idx' = LowestHit(guides, e, 15)
               /\ positioning_idx' = None
               /\ guides' = guides]_vars

\* An idle move that left the second guide hovered.
C17_Witness ==
    /\ op.name = "mouseMoveEvent"
    /\ op.was = None
    /\ interactive
    /\ positioning_idx = None
    /\ hover_idx = 1
    /\ emitted = 0

\* C18: the pointer leaving the interactive canvas. With no guide being
\* positioned, hover_idx becomes None and nothing else changes; during a drag
\* the event changes nothing at all, so the drag goes on with the next move.
C18_LeaveClearsHoverWhenIdle ==
    [][(op'.name = "leaveEvent" /\ interactive) =>
            IF positioning_idx = None
            THEN /\ hover_idx' = None
                 /\ UNCHANGED <<guides, positioning_idx, interactive, mouse_transparent>>
            ELSE UNCHANGED <<guides, hover_idx, positioning_idx, interactive,
                             mouse_transparent>>]_vars

\* The pointer left during a drag: the drag and its highlight are still there.
C18_Witness ==
    /\ op.name = "leaveEvent"
    /\ interactive
    /\ op.was # None
    /\ positioning_idx = op.was
    /\ hover_idx = op.was

\* C19: the stale index heals itself. A pointer move that arrives during a
\* drag whose positioning_idx is no longer an index of guides (guides were
\* deleted through the list guides() shares, not through removeGuideAt) sets
\* positioning_idx and hover_idx to None and modifies no guide.
C19_StaleDragResets ==
    [][(op'.name = "mouseMoveEvent" /\ interactive
            /\ positioning_idx # None /\ OutOfRange(positioning_idx, guides)) =>
        \A e \in MoveEvents :
            mouseMoveEvent(e)
            => /\ positioning_idx' = None
               /\ hover_idx' = None
               /\ guides' = guides
               /\ emitted' = 0]_vars

\* A move that met a drag of the second guide of a list cut down to one guide
\* behind the canvas's back: the drag is over, the guide left is as it was.
C19_Witness ==
    /\ op.name = "mouseMoveEvent"
    /\ op.was = 1
    /\ Len(guides) = 1
    /\ positioning_idx = None
    /\ hover_idx = None
    /\ emitted = 0

\* The highlight index as the design derives it.
DerivedHighlight ==
    IF positioning_idx # None THEN positioning_idx
    ELSE IF interactive THEN hover_idx
    ELSE None

\* C20: the index paintEvent highlights is positioning_idx if that is set,
\* else hover_idx if the canvas is interactive, else none; a highlighted index
\* is always an index of guides, so the highlight is drawn; the highlight is
\* bright exactly when the highlighted guide is the one being positioned and
\* soft when it is merely hovered; nothing is highlighted on a passive canvas.
C20_HighlightDerivation ==
    /\ highlight_idx = DerivedHighlight
    /\ highlight_idx # None =>
            /\ 0 <= highlight_idx /\ highlight_idx < Len(guides)
            /\ HighlightDrawn
            /\ highlight_color = BrightYellow <=> positioning_idx # None
            /\ highlight_color = SoftYellow <=> positioning_idx = None
    /\ ~interactive => ~HighlightDrawn

\* An idle canvas with the second guide hovered: the highlight is the soft one.
C20_Witness ==
    /\ interactive
    /\ positioning_idx = None
    /\ hover_idx = 1
    /\ highlight_idx = 1
    /\ HighlightDrawn
    /\ highlight_color = SoftYellow

\* C21: in every reachable state a set positioning_idx is also the hover_idx:
\* the dragged guide is the hovered guide for the whole drag, guides added or
\* removed meanwhile included, so the two can differ only when no guide is
\* being positioned.
C21_DraggedIsHovered ==
    positioning_idx # None => hover_idx = positioning_idx

\* removeGuideAt took the first guide away while the second was dragged: both
\* indices moved down together.
C21_Witness ==
    /\ op.name = "removeGuideAt"
    /\ op.was = 1
    /\ emitted = 1
    /\ positioning_idx = 0
    /\ hover_idx = 0

\* C22: toggleSettingsMode and toggleGuidesVisibility never modify guides
\* (length, order, positions, styles), so a drag cut short by leaving settings
\* mode leaves the guide where the last move put it; toggleGuidesVisibility
\* also leaves interactive, hover_idx and positioning_idx unchanged, so hiding
\* and showing the overlay during a drag does not end the drag.
C22_TogglesKeepGuides ==
    [][/\ op'.name \in {"toggleSettingsMode", "toggleGuidesVisibility"} =>
            guides' = guides
       /\ op'.name = "toggleGuidesVisibility" =>
            UNCHANGED <<interactive, hover_idx, positioning_idx>>]_vars

\* The overlay hidden in the middle of a drag that had taken the guide to the
\* left edge: the guide is there, the drag is still on.
C22_Witness ==
    /\ op.name = "toggleGuidesVisibility"
    /\ ~window_visible
    /\ settings_mode
    /\ interactive
    /\ op.was # None
    /\ positioning_idx = op.was
    /\ hover_idx = op.was
    /\ guides[op.was + 1].orientation = "v"
    /\ guides[op.was + 1].pos = 0

\* C23: the hover radius being no larger than the drag radius and both
\* hit-tests taking the lowest index that qualifies, wherever the hover
\* hit-test returns a guide i the drag hit-test at the same point returns a
\* guide j <= i, never None: a left or right click where a guide shows the
\* hover highlight always finds a guide, though maybe a lower one.
C23_DragHitAtOrBelowHoverHit ==
    /\ GUIDE_HIT_RADIUS <= GUIDE_DRAG_RADIUS
    /\ \A e \in MoveEvents :
            LET i == _findGuideAt(e, FALSE)
                j == _findGuideAt(e, TRUE)
            IN  i # None => (j # None /\ 0 <= j /\ j <= i)

\* The pointer hovers the second guide at a point where the drag hit-test
\* takes the first: a click there acts on the guide that is not highlighted.
C23_Witness ==
    /\ op.name = "mouseMoveEvent"
    /\ interactive
    /\ positioning_idx = None
    /\ hover_idx = 1
    /\ \E e \in MoveEvents :
            /\ _findGuideAt(e, FALSE) = hover_idx
            /\ _findGuideAt(e, TRUE) = 0

====
